---- MODULE Spec2Model ----
(***************************************************************************)
(* A model of the two programs of the repository:                          *)
(*   - the seeding script (seedDatabase and the functions it calls), the   *)
(*     specification Spec, and createFrontendPrincipleSummary on its own,  *)
(*     the specification SummarySpec;                                      *)
(*   - the chat client component ChatApp (sendMessage, handleKeyDown, the  *)
(*     input and the Send button), the specification ChatSpec.             *)
(* External services (MongoDB, the language model, the embedding provider, *)
(* the chat backend) are modelled by their possible outcomes: every call   *)
(* may succeed or throw, and a call that throws has no effect.             *)
(***************************************************************************)
EXTENDS Integers, Sequences, FiniteSets, TLC

\* ------------------------------------------------------------- bounds
\* Longest array the language model returns in one generation call.
MaxBatch == 3
\* Number of consecutive executions of the seeding script.
MaxRuns == 2
\* Largest number of documents in the collection before the first run.
MaxPre == 1
\* Number of sendMessage calls in one chat session.
MaxSends == 3
\* Longest list field of a record handed to createFrontendPrincipleSummary.
MaxItems == 2

VARIABLES
  \* --- seeding script
  pc,                    \* position in seedDatabase
  run,                   \* number of the current execution of the script
  prepopulated,          \* the documents present before the first run
  collection,            \* frontend_db.principles, in insertion order
  modelOutput,           \* what llm.invoke produced in this run
  syntheticData,         \* the records parser.parse returned
  recordsWithSummaries,  \* the { pageContent, metadata } objects
  idx,                   \* position of the for...of loop (1-based)
  inflight,              \* records whose fromDocuments call is pending
  ops,                   \* the external calls of this run, in order
  caught,                \* the step whose error the catch block logged
  result,                \* how the promise of seedDatabase settled
  \* --- chat client
  messages, input, threadId, isLoading,
  requests,              \* fetch calls awaiting their response
  minted,                \* thread ids the backend has minted so far
  carried,               \* history: thread ids of the responses processed
  sent,                  \* history: one entry per request sent
  settled,               \* history: one entry per request settled
  lastAction             \* history: the handler that ran last

seedVars == <<pc, run, prepopulated, collection, modelOutput, syntheticData,
              recordsWithSummaries, idx, inflight, ops, caught, result>>
chatVars == <<messages, input, threadId, isLoading, requests, minted, carried,
              sent, settled, lastAction>>
vars == <<seedVars, chatVars>>

\* ------------------------------------------------- JSON values (untyped)
Str(s) == [t |-> "string", v |-> s]
Num(n) == [t |-> "number", v |-> n]
Arr(a) == [t |-> "array", v |-> a]

\* ------------------------------------------------ FrontendPrincipleSchema
StringFields == {"principle_id", "name", "description", "notes"}
ArrayFields == {"keyConcepts", "designGuidelines", "commonPitfalls",
                "bestPractices", "relevantTechnologies"}

IsString(j) == j.t = "string"
IsStringArray(j) ==
  /\ j.t = "array"
  /\ \A i \in 1..Len(j.v) : IsString(j.v[i])

\* z.object(...).safeParse succeeds on the candidate
Conforms(c) ==
  /\ \A f \in StringFields : f \in DOMAIN c /\ IsString(c[f])
  /\ \A f \in ArrayFields : f \in DOMAIN c /\ IsStringArray(c[f])

\* the FrontendPrinciple zod returns for a conforming candidate
Strings(j) == [i \in 1..Len(j.v) |-> j.v[i].v]
ParsedPrinciple(c) ==
  [principle_id |-> c.principle_id.v,
   name |-> c.name.v,
   description |-> c.description.v,
   keyConcepts |-> Strings(c.keyConcepts),
   designGuidelines |-> Strings(c.designGuidelines),
   commonPitfalls |-> Strings(c.commonPitfalls),
   bestPractices |-> Strings(c.bestPractices),
   relevantTechnologies |-> Strings(c.relevantTechnologies),
   notes |-> c.notes.v]

\* ------------------------------------------ what the model may return
CandP1 ==
  [principle_id |-> Str("p1"), name |-> Str("Consistency"),
   description |-> Str("d1"),
   keyConcepts |-> Arr(<<Str("A"), Str("B")>>),
   designGuidelines |-> Arr(<<Str("G1")>>),
   commonPitfalls |-> Arr(<<>>),
   bestPractices |-> Arr(<<Str("BP1")>>),
   relevantTechnologies |-> Arr(<<Str("Tech1")>>),
   notes |-> Str("n")]
CandP2 ==
  [principle_id |-> Str("p2"), name |-> Str("Hierarchy"),
   description |-> Str("d2"),
   keyConcepts |-> Arr(<<Str("C")>>),
   designGuidelines |-> Arr(<<>>),
   commonPitfalls |-> Arr(<<Str("X"), Str("Y")>>),
   bestPractices |-> Arr(<<>>),
   relevantTechnologies |-> Arr(<<Str("CSS"), Str("HTML")>>),
   notes |-> Str("")]
\* a wrong type: name is a number
CandBadType == [CandP1 EXCEPT !.name = Num(7)]
\* a missing field: no notes
CandMissing == [f \in (DOMAIN CandP2) \ {"notes"} |-> CandP2[f]]

Candidates == {CandP1, CandP2, CandBadType, CandMissing}

RECURSIVE SeqsUpTo(_, _)
SeqsUpTo(S, n) ==
  IF n = 0 THEN {<<>>}
  ELSE LET shorter == SeqsUpTo(S, n - 1)
       IN shorter \cup {Append(s, x) : s \in {t \in shorter : Len(t) = n - 1}, x \in S}

ModelOutputs ==
  {[kind |-> "error"], [kind |-> "text"]}
    \cup {[kind |-> "array", items |-> s] : s \in SeqsUpTo(Candidates, MaxBatch)}

\* variant: each element is validated on its own and the conforming ones kept
Parse_PerElement(out) ==
  IF out.kind = "array"
    THEN LET kept == SelectSeq(out.items, Conforms)
         IN [ok |-> TRUE,
             records |-> [i \in 1..Len(kept) |-> ParsedPrinciple(kept[i])]]
    ELSE [ok |-> FALSE, records |-> <<>>]

\* parser.parse of z.array(FrontendPrincipleSchema): the whole output is
\* accepted or the whole output is rejected (the parser throws)
Parse(out) ==
  IF out.kind = "array" /\ \A i \in 1..Len(out.items) : Conforms(out.items[i])
    THEN [ok |-> TRUE,
          records |-> [i \in 1..Len(out.items) |-> ParsedPrinciple(out.items[i])]]
    ELSE [ok |-> FALSE, records |-> <<>>]

\* ------------------------------------------ createFrontendPrincipleSummary
\* variant: the separator follows every item, the last one too
RECURSIVE Join_TrailingSeparator(_, _)
Join_TrailingSeparator(items, sep) ==
  IF Len(items) = 0 THEN ""
  ELSE items[1] \o sep \o Join_TrailingSeparator(Tail(items), sep)

RECURSIVE Join(_, _)
Join(items, sep) ==
  IF Len(items) = 0 THEN ""
  ELSE IF Len(items) = 1 THEN items[1]
  ELSE items[1] \o sep \o Join(Tail(items), sep)

createFrontendPrincipleSummary(principle) ==
  LET basics == principle.name \o " (" \o principle.principle_id \o "): "
                  \o principle.description
      concepts == "Key Concepts: " \o Join(principle.keyConcepts, ", ")
      guidelines == "Design Guidelines: " \o Join(principle.designGuidelines, ", ")
      pitfalls == "Common Pitfalls: " \o Join(principle.commonPitfalls, ", ")
      practices == "Best Practices: " \o Join(principle.bestPractices, ", ")
      technologies == "Technologies: " \o Join(principle.relevantTechnologies, ", ")
  IN basics \o ". " \o concepts \o ". " \o guidelines \o ". " \o pitfalls \o ". "
       \o practices \o ". " \o technologies \o ". Notes: " \o principle.notes

\* syntheticData.map(async (record) => ({ pageContent, metadata }))
WithSummaries(data) ==
  [i \in 1..Len(data) |->
     [pageContent |-> createFrontendPrincipleSummary(data[i]),
      metadata |-> data[i]]]

\* ------------------------------------ MongoDBAtlasVectorSearch.fromDocuments
\* new OpenAIEmbeddings().embedDocuments: the vector the provider returns for
\* a text is only known by the text it was computed from
EmbedDocuments(texts) == [i \in 1..Len(texts) |-> [of |-> texts[i]]]

\* variant: the vector is computed from the description, not from the summary
NewDocuments_EmbedDescription(documents, r, at) ==
  LET vectors == EmbedDocuments([i \in 1..Len(documents) |-> documents[i].metadata.description])
  IN [i \in 1..Len(documents) |->
        [_id |-> [run |-> r, n |-> at + i - 1],
         embedding_text |-> documents[i].pageContent,
         embedding |-> vectors[i]] @@ documents[i].metadata]

\* the documents insertMany receives: text under textKey "embedding_text",
\* vector under embeddingKey "embedding", the metadata fields beside them,
\* and a fresh _id
NewDocuments(documents, r, at) ==
  LET vectors == EmbedDocuments([i \in 1..Len(documents) |-> documents[i].pageContent])
  IN [i \in 1..Len(documents) |->
        [_id |-> [run |-> r, n |-> at + i - 1],
         embedding_text |-> documents[i].pageContent,
         embedding |-> vectors[i],
         principle_id |-> documents[i].metadata.principle_id,
         name |-> documents[i].metadata.name,
         description |-> documents[i].metadata.description,
         keyConcepts |-> documents[i].metadata.keyConcepts,
         designGuidelines |-> documents[i].metadata.designGuidelines,
         commonPitfalls |-> documents[i].metadata.commonPitfalls,
         bestPractices |-> documents[i].metadata.bestPractices,
         relevantTechnologies |-> documents[i].metadata.relevantTechnologies,
         notes |-> documents[i].metadata.notes]]

\* variant: a filter that matches nothing
DeleteAll_Keep(coll) == coll

\* collection.deleteMany({}) on a collection
DeleteAll(coll) == <<>>

\* ------------------------------------------------- seedDatabase, control
\* where control goes after a step of the try block: on to the next
\* statement, or (the step threw) through catch to the finally block
\* variant: the records are generated before the collection is cleared
TryFlow_GenerateBeforeClear(step) ==
  CASE step = "connect" -> "ping"
    [] step = "ping" -> "generate"
    [] step = "generate" -> "deleteMany"
    [] step = "deleteMany" -> "summarize"
    [] step = "summarize" -> "loop"
    [] step = "fromDocuments" -> "loop"
    [] step = "loopEnd" -> "close"

TryFlow(step) ==
  CASE step = "connect" -> "ping"
    [] step = "ping" -> "deleteMany"
    [] step = "deleteMany" -> "generate"
    [] step = "generate" -> "summarize"
    [] step = "summarize" -> "loop"
    [] step = "fromDocuments" -> "loop"
    [] step = "loopEnd" -> "close"

\* variants of the control flow that the properties below must tell apart
\* from the code's: a try/catch around each record, no finally block, no
\* deleteMany, a ping whose failure is ignored
PcAfter_CatchPerRecord(step, ok) ==
  IF ~ok /\ step # "fromDocuments" THEN "close" ELSE TryFlow(step)
PcAfter_NoFinally(step, ok) ==
  IF ~ok THEN "done" ELSE TryFlow(step)
PcAfter_NoClear(step, ok) ==
  IF ~ok THEN "close" ELSE IF step = "ping" THEN "generate" ELSE TryFlow(step)
PcAfter_PingIgnored(step, ok) ==
  IF ~ok /\ step # "ping" THEN "close" ELSE TryFlow(step)

PcAfter(step, ok) ==
  IF ~ok THEN "close" ELSE TryFlow(step)

\* for (const record of recordsWithSummaries): the next record
NextIndex(i) == i + 1

\* variant: the catch block rethrows
Settle_Rethrow(err, closeOk) ==
  IF closeOk /\ err = "none" THEN "resolved" ELSE "rejected"

\* the promise of seedDatabase: the catch block swallows every error of the
\* try block; only an error thrown by client.close() in finally escapes
Settle(err, closeOk) == IF closeOk THEN "resolved" ELSE "rejected"

Op(name, ok, rec) == [op |-> name, ok |-> ok, rec |-> rec]

Goto(step, ok) ==
  /\ pc' = PcAfter(step, ok)
  /\ caught' = IF ok THEN caught ELSE step

\* the documents of the collection before the first run
PreDocs(m) ==
  [k \in 1..m |->
     [_id |-> [run |-> 0, n |-> k],
      embedding_text |-> "old", embedding |-> [of |-> "other"],
      principle_id |-> "old", name |-> "old", description |-> "old",
      keyConcepts |-> <<>>, designGuidelines |-> <<>>, commonPitfalls |-> <<>>,
      bestPractices |-> <<>>, relevantTechnologies |-> <<>>, notes |-> "old"]]

SeedInit ==
  /\ pc = "idle"
  /\ run = 0
  /\ \E m \in 0..MaxPre : prepopulated = PreDocs(m) /\ collection = PreDocs(m)
  /\ modelOutput = [kind |-> "none"]
  /\ syntheticData = <<>>
  /\ recordsWithSummaries = <<>>
  /\ idx = 1
  /\ inflight = {}
  /\ ops = <<>>
  /\ caught = "none"
  /\ result = "pending"

\* line 232: the script is executed (again)
RunScript ==
  /\ pc \in {"idle", "done"}
  /\ run < MaxRuns
  /\ pc' = "connect"
  /\ run' = run + 1
  /\ modelOutput' = [kind |-> "none"]
  /\ syntheticData' = <<>>
  /\ recordsWithSummaries' = <<>>
  /\ idx' = 1
  /\ inflight' = {}
  /\ ops' = <<>>
  /\ caught' = "none"
  /\ result' = "pending"
  /\ UNCHANGED <<prepopulated, collection>>
  /\ UNCHANGED chatVars

\* await client.connect()
Connect ==
  /\ pc = "connect"
  /\ \E ok \in BOOLEAN :
       /\ ops' = Append(ops, Op("connect", ok, 0))
       /\ Goto("connect", ok)
  /\ UNCHANGED <<run, prepopulated, collection, modelOutput, syntheticData,
                 recordsWithSummaries, idx, inflight, result>>
  /\ UNCHANGED chatVars

\* await client.db("admin").command({ ping: 1 })
Ping ==
  /\ pc = "ping"
  /\ \E ok \in BOOLEAN :
       /\ ops' = Append(ops, Op("ping", ok, 0))
       /\ Goto("ping", ok)
  /\ UNCHANGED <<run, prepopulated, collection, modelOutput, syntheticData,
                 recordsWithSummaries, idx, inflight, result>>
  /\ UNCHANGED chatVars

\* await collection.deleteMany({})
DeleteMany ==
  /\ pc = "deleteMany"
  /\ \E ok \in BOOLEAN :
       /\ ops' = Append(ops, Op("deleteMany", ok, 0))
       /\ collection' = IF ok THEN DeleteAll(collection) ELSE collection
       /\ Goto("deleteMany", ok)
  /\ UNCHANGED <<run, prepopulated, modelOutput, syntheticData,
                 recordsWithSummaries, idx, inflight, result>>
  /\ UNCHANGED chatVars

\* const syntheticData = await generateSyntheticData()
generateSyntheticData ==
  /\ pc = "generate"
  /\ \E out \in ModelOutputs :
       LET invoked == out.kind # "error"
           parsed == Parse(out)
       IN /\ modelOutput' = out
          /\ ops' = IF invoked
                      THEN ops \o <<Op("llm.invoke", TRUE, 0),
                                    Op("parser.parse", parsed.ok, 0)>>
                      ELSE Append(ops, Op("llm.invoke", FALSE, 0))
          /\ syntheticData' = parsed.records
          /\ Goto("generate", invoked /\ parsed.ok)
  /\ UNCHANGED <<run, prepopulated, collection, recordsWithSummaries, idx,
                 inflight, result>>
  /\ UNCHANGED chatVars

\* const recordsWithSummaries = await Promise.all(syntheticData.map(...))
MapSummaries ==
  /\ pc = "summarize"
  /\ recordsWithSummaries' = WithSummaries(syntheticData)
  /\ Goto("summarize", TRUE)
  /\ UNCHANGED <<run, prepopulated, collection, modelOutput, syntheticData,
                 idx, inflight, ops, result>>
  /\ UNCHANGED chatVars

\* variant: fromDocuments is started for all records at once (Promise.all)
FromDocumentsStart_AllAtOnce ==
  /\ pc = "loop"
  /\ idx <= Len(recordsWithSummaries)
  /\ inflight' = idx..Len(recordsWithSummaries)
  /\ pc' = "await"
  /\ UNCHANGED <<run, prepopulated, collection, modelOutput, syntheticData,
                 recordsWithSummaries, idx, ops, caught, result>>
  /\ UNCHANGED chatVars

\* the loop takes the next record and calls fromDocuments([record], ...)
FromDocumentsStart ==
  /\ pc = "loop"
  /\ idx <= Len(recordsWithSummaries)
  /\ inflight' = inflight \cup {idx}
  /\ pc' = "await"
  /\ UNCHANGED <<run, prepopulated, collection, modelOutput, syntheticData,
                 recordsWithSummaries, idx, ops, caught, result>>
  /\ UNCHANGED chatVars

\* the awaited fromDocuments call settles: the embedding call threw, the
\* insert threw, or the document was inserted
FromDocumentsSettle ==
  /\ pc = "await"
  /\ \E outcome \in {"ok", "embedFailed", "insertFailed"} :
       LET docs == NewDocuments(<<recordsWithSummaries[idx]>>, run, idx)
       IN /\ ops' = IF outcome = "embedFailed"
                      THEN Append(ops, Op("embedDocuments", FALSE, idx))
                      ELSE ops \o <<Op("embedDocuments", TRUE, idx),
                                    Op("insertMany", outcome = "ok", idx)>>
          /\ collection' = IF outcome = "ok" THEN collection \o docs ELSE collection
          /\ idx' = IF outcome = "ok" THEN NextIndex(idx) ELSE idx
          /\ Goto("fromDocuments", outcome = "ok")
  /\ inflight' = inflight \ {idx}
  /\ UNCHANGED <<run, prepopulated, modelOutput, syntheticData,
                 recordsWithSummaries, result>>
  /\ UNCHANGED chatVars

\* the loop is exhausted: "Database seeding completed"
LoopExit ==
  /\ pc = "loop"
  /\ idx > Len(recordsWithSummaries)
  /\ Goto("loopEnd", TRUE)
  /\ UNCHANGED <<run, prepopulated, collection, modelOutput, syntheticData,
                 recordsWithSummaries, idx, inflight, ops, result>>
  /\ UNCHANGED chatVars

\* finally { await client.close() }, and the promise settles
Close ==
  /\ pc = "close"
  /\ \E ok \in BOOLEAN :
       /\ ops' = Append(ops, Op("close", ok, 0))
       /\ result' = Settle(caught, ok)
  /\ pc' = "done"
  /\ UNCHANGED <<run, prepopulated, collection, modelOutput, syntheticData,
                 recordsWithSummaries, idx, inflight, caught>>
  /\ UNCHANGED chatVars


\* ------------------------------------------------------------------------
\* ChatApp: the chat client
\* ------------------------------------------------------------------------
Null == "null"
Whitespace == {" ", "\t", "\n"}

\* String.prototype.trim, on a string given as its sequence of characters
RECURSIVE TrimStart(_)
TrimStart(s) ==
  IF Len(s) > 0 /\ s[1] \in Whitespace THEN TrimStart(Tail(s)) ELSE s
RECURSIVE TrimEnd(_)
TrimEnd(s) ==
  IF Len(s) > 0 /\ s[Len(s)] \in Whitespace
    THEN TrimEnd(SubSeq(s, 1, Len(s) - 1)) ELSE s
\* the string whose characters are given
RECURSIVE AsString(_)
AsString(chars) ==
  IF Len(chars) = 0 THEN "" ELSE chars[1] \o AsString(Tail(chars))

\* variant: the input is used as typed
Trim_None(s) == s

Trim(s) == TrimEnd(TrimStart(s))

\* variant: the new entry is put first
AppendMessage_Prepend(prev, entry) == <<entry>> \o prev

\* setMessages((prev) => [...prev, entry])
AppendMessage(prev, entry) == Append(prev, entry)

\* what the user may type into the input
Inputs == {<<>>, <<" ">>, <<"h", "i">>, <<" ", "o", "k", " ">>}

\* const url = threadId ? `${baseUrl}/chat/${threadId}` : `${baseUrl}/chat`
Url(tid) == IF tid # Null THEN "/chat/" \o tid ELSE "/chat"

\* the id the backend mints for its n-th new conversation
ThreadName(n) == "t" \o ToString(n)

Fallback == "Sorry, there was an error."

ChatInit ==
  /\ messages = <<>>
  /\ input = <<>>
  /\ threadId = Null
  /\ isLoading = FALSE
  /\ requests = {}
  /\ minted = 0
  /\ carried = {}
  /\ sent = <<>>
  /\ settled = <<>>
  /\ lastAction = "none"

\* onChange={(e) => setInput(e.target.value)}
SetInput ==
  /\ \E text \in Inputs : text # input /\ input' = text
  /\ lastAction' = "setInput"
  /\ UNCHANGED <<messages, threadId, isLoading, requests, minted, carried, sent,
                 settled>>
  /\ UNCHANGED seedVars

\* sendMessage up to its first await: the request leaves with the threadId
\* of the render the handler belongs to
sendMessage ==
  LET trimmedMessage == Trim(input)
  IN IF trimmedMessage = <<>>
       THEN /\ lastAction' = "sendMessage"
            /\ UNCHANGED <<messages, input, threadId, isLoading, requests,
                           minted, carried, sent, settled>>
       ELSE /\ Len(sent) < MaxSends
            /\ lastAction' = "sendMessage"
            /\ messages' = AppendMessage(messages, [sender |-> "user", text |-> AsString(trimmedMessage)])
            /\ input' = <<>>
            /\ isLoading' = TRUE
            /\ requests' = requests \cup
                 {[n |-> Len(sent) + 1, url |-> Url(threadId), threadId |-> threadId]}
            /\ sent' = Append(sent, [url |-> Url(threadId), held |-> threadId,
                                     seen |-> carried])
            /\ UNCHANGED <<threadId, minted, carried, settled>>

\* <Button onClick={sendMessage} disabled={isLoading}>
ClickSend ==
  /\ ~isLoading
  /\ sendMessage
  /\ UNCHANGED seedVars

\* handleKeyDown: the Enter key in the input
PressEnter ==
  /\ sendMessage
  /\ UNCHANGED seedVars

\* what the backend may answer to a request: a 2xx reply (POST /chat mints a
\* thread id, POST /chat/{id} echoes the id or omits it), a non-2xx reply with
\* a JSON body, a non-2xx reply whose body is not JSON, or no reply at all
Replies(req) ==
  (IF req.url = "/chat"
     THEN {[kind |-> "ok", threadId |-> ThreadName(minted + 1), response |-> "reply"]}
     ELSE {[kind |-> "ok", threadId |-> req.threadId, response |-> "reply"],
           [kind |-> "ok", threadId |-> Null, response |-> "reply"]})
  \cup {[kind |-> "httpErrorJson", threadId |-> Null, response |-> "undefined"],
        [kind |-> "httpErrorText", threadId |-> Null, response |-> "undefined"],
        [kind |-> "networkError", threadId |-> Null, response |-> "undefined"]}

\* fetch rejects, or response.json() throws
Throws(reply) == reply.kind \in {"httpErrorText", "networkError"}

\* sendMessage after its awaits: the response of one request is processed
Respond ==
  /\ \E req \in requests : \E data \in Replies(req) :
       /\ requests' = requests \ {req}
       /\ minted' = IF data.kind = "ok" /\ req.url = "/chat" THEN minted + 1 ELSE minted
       /\ IF Throws(data)
            THEN /\ messages' = AppendMessage(messages, [sender |-> "agent", text |-> Fallback])
                 /\ UNCHANGED <<threadId, carried>>
            ELSE /\ threadId' = IF req.threadId = Null /\ data.threadId # Null
                                  THEN data.threadId ELSE threadId
                 /\ carried' = IF data.threadId # Null
                                 THEN carried \cup {data.threadId} ELSE carried
                 /\ messages' = AppendMessage(messages, [sender |-> "agent", text |-> data.response])
       /\ settled' = Append(settled, [failed |-> data.kind # "ok"])
       /\ isLoading' = FALSE
  /\ lastAction' = "respond"
  /\ UNCHANGED <<input, sent>>
  /\ UNCHANGED seedVars

\* ------------------------------------------------------------------------
\* The specifications
\* ------------------------------------------------------------------------
Init == SeedInit /\ ChatInit

Next ==
  \/ RunScript
  \/ Connect
  \/ Ping
  \/ DeleteMany
  \/ generateSyntheticData
  \/ MapSummaries
  \/ FromDocumentsStart
  \/ FromDocumentsSettle
  \/ LoopExit
  \/ Close

Spec == Init /\ [][Next]_vars

\* createFrontendPrincipleSummary on its own: the run has reached line 201
\* with one record, whose list fields hold 0..MaxItems items in either order
ItemPool == <<"A", "B", "C", "D", "E">>
ItemLists ==
  UNION {{SubSeq(ItemPool, 1, k), [i \in 1..k |-> ItemPool[k + 1 - i]]} : k \in 0..MaxItems}
JsonList(items) == Arr([i \in 1..Len(items) |-> Str(items[i])])
SummaryCandidates ==
  {[principle_id |-> Str("p1"), name |-> Str("Consistency"),
    description |-> Str("d1"),
    keyConcepts |-> JsonList(kc), designGuidelines |-> JsonList(dg),
    commonPitfalls |-> JsonList(cp), bestPractices |-> JsonList(bp),
    relevantTechnologies |-> JsonList(rt), notes |-> Str(nt)] :
     kc \in ItemLists, dg \in ItemLists, cp \in ItemLists, bp \in ItemLists,
     rt \in ItemLists, nt \in {"n", ""}}

SummaryInit ==
  /\ ChatInit
  /\ pc = "summarize"
  /\ run = 1
  /\ prepopulated = <<>>
  /\ collection = <<>>
  /\ \E c \in SummaryCandidates :
       /\ modelOutput = [kind |-> "array", items |-> <<c>>]
       /\ syntheticData = Parse([kind |-> "array", items |-> <<c>>]).records
  /\ recordsWithSummaries = <<>>
  /\ idx = 1
  /\ inflight = {}
  /\ ops = <<Op("connect", TRUE, 0), Op("ping", TRUE, 0), Op("deleteMany", TRUE, 0),
             Op("llm.invoke", TRUE, 0), Op("parser.parse", TRUE, 0)>>
  /\ caught = "none"
  /\ result = "pending"

SummarySpec == SummaryInit /\ [][MapSummaries]_vars

ChatNext ==
  \/ SetInput
  \/ ClickSend
  \/ PressEnter
  \/ Respond

\* the chat client runs in the browser, apart from the seeding script
ChatSpecInit == Init /\ prepopulated = <<>>

ChatSpec == ChatSpecInit /\ [][ChatNext]_vars

\* ------------------------------------------------------------------------
\* Properties of the seeding script (checked under Spec)
\* ------------------------------------------------------------------------
\* the documents this run has written, in insertion order
RunDocs == SelectSeq(collection, LAMBDA d : run > 0 /\ d._id.run = run)
\* the FrontendPrinciple stored in a document
SourceRecord(d) ==
  [principle_id |-> d.principle_id, name |-> d.name,
   description |-> d.description, keyConcepts |-> d.keyConcepts,
   designGuidelines |-> d.designGuidelines, commonPitfalls |-> d.commonPitfalls,
   bestPractices |-> d.bestPractices,
   relevantTechnologies |-> d.relevantTechnologies, notes |-> d.notes]
OpsOf(names) == SelectSeq(ops, LAMBDA o : o.op \in names)
RecordOps == {"embedDocuments", "insertMany"}
\* the record whose embed-and-write step threw
FailedRecords == {ops[j].rec : j \in {i \in 1..Len(ops) : ops[i].op \in RecordOps /\ ~ops[i].ok}}
\* the records for which the embed-and-write step was performed
AttemptedRecords == {ops[j].rec : j \in {i \in 1..Len(ops) : ops[i].op = "embedDocuments"}}
IsPrefix(s, t) == Len(s) <= Len(t) /\ \A i \in 1..Len(s) : t[i] = s[i]
Finished == pc = "done"

C3_ClosedExactlyOnce ==
  /\ Len(OpsOf({"close"})) <= 1
  /\ Len(OpsOf({"close"})) = 1 => ops[Len(ops)].op = "close"
  /\ Finished => Len(OpsOf({"close"})) = 1
  /\ caught # "none" => pc \in {"close", "done"}

\* C3 witness: a run in which an insert failed has ended
C3_Witness ==
  /\ Finished /\ caught = "fromDocuments" /\ Len(ops) > 6
  /\ Len(OpsOf({"close"})) = 1

\* C4: after any number of consecutive runs, a run that got past deleteMany
\* and in which no write failed leaves exactly its own documents, one per
\* generated record, in generation order, and none of the documents of
\* earlier runs or of the M documents present before.
C4_ReplaceLeavesLastRun ==
  (Finished /\ caught \in {"none", "generate"}) =>
    /\ Len(collection) = Len(syntheticData)
    /\ \A i \in 1..Len(collection) :
         /\ collection[i]._id = [run |-> run, n |-> i]
         /\ SourceRecord(collection[i]) = syntheticData[i]
    /\ caught = "none" =>
         /\ modelOutput.kind = "array"
         /\ Len(collection) = Len(modelOutput.items)

\* C4 witness: the second run over a pre-populated collection wrote 2 documents
C4_Witness ==
  /\ Finished /\ caught = "none" /\ run = 2
  /\ Len(prepopulated) = 1 /\ Len(collection) = 2

MixedOutput ==
  /\ modelOutput.kind = "array"
  /\ \E i \in 1..Len(modelOutput.items) : Conforms(modelOutput.items[i])
  /\ \E i \in 1..Len(modelOutput.items) : ~Conforms(modelOutput.items[i])
ConformingCount ==
  Cardinality({i \in 1..Len(modelOutput.items) : Conforms(modelOutput.items[i])})

\* C6 (as claimed): when the model returns an array with conforming and
\* non-conforming elements, the non-conforming ones are left out and every
\* conforming one is summarized, embedded and written.
C6_InvalidElementsSkipped ==
  (Finished /\ MixedOutput /\ FailedRecords = {}) =>
    /\ Len(recordsWithSummaries) = ConformingCount
    /\ Len(RunDocs) = ConformingCount

\* C6 (amended): when any element of the returned array does not conform,
\* parsing throws and the whole batch is rejected: no element, conforming or
\* not, is summarized, embedded or written, and the run goes to close with
\* the error logged.
C6_WholeBatchRejected ==
  (modelOutput.kind = "array"
     /\ \E i \in 1..Len(modelOutput.items) : ~Conforms(modelOutput.items[i])) =>
    /\ caught = "generate"
    /\ pc \in {"close", "done"}
    /\ syntheticData = <<>>
    /\ recordsWithSummaries = <<>>
    /\ AttemptedRecords = {}
    /\ RunDocs = <<>>

\* C6 witness: a run ended on an array of 3 with 2 conforming elements
C6_Witness ==
  /\ Finished /\ MixedOutput
  /\ Len(modelOutput.items) = 3 /\ ConformingCount = 2

\* C7: every document written by a run holds a source record, the summary of
\* that same record as its text, and the vector computed from exactly that
\* text; the documents of the current run are those of the generated records.
C7_PairingInvariant ==
  \A i \in 1..Len(collection) :
    LET d == collection[i]
    IN d._id.run > 0 =>
         /\ d.embedding_text = createFrontendPrincipleSummary(SourceRecord(d))
         /\ d.embedding = [of |-> d.embedding_text]
         /\ d._id.run = run => SourceRecord(d) = syntheticData[d._id.n]

\* C7 witness: two different records have been written
C7_Witness ==
  /\ Len(RunDocs) = 2
  /\ RunDocs[1].principle_id # RunDocs[2].principle_id

StoreOrModelOps ==
  {"deleteMany", "llm.invoke", "parser.parse", "embedDocuments", "insertMany"}

\* C8: no clear, no generation and no write happens before connect and ping
\* have both succeeded; if either fails the run goes straight to close, and
\* connect is called once.
C8_LivenessCheckBeforeUse ==
  /\ \A j \in 1..Len(ops) :
       ops[j].op \in StoreOrModelOps =>
         /\ j > 2
         /\ ops[1] = Op("connect", TRUE, 0)
         /\ ops[2] = Op("ping", TRUE, 0)
  /\ Len(OpsOf({"connect"})) <= 1
  /\ caught \in {"connect", "ping"} =>
       /\ pc \in {"close", "done"}
       /\ OpsOf(StoreOrModelOps) = <<>>

\* C8 witness: the ping failed and the run ended with the collection as it was
C8_Witness ==
  /\ Finished /\ caught = "ping" /\ run = 1
  /\ ops = <<Op("connect", TRUE, 0), Op("ping", FALSE, 0), Op("close", TRUE, 0)>>
  /\ collection = prepopulated /\ Len(collection) = 1

\* C9: the embed-and-write steps are performed one record at a time in
\* generation order: at most one is pending, the one of record i+1 starts
\* only after that of record i has completed, and a record is written at
\* most once.
C9_SequentialOrdered ==
  LET embeds == OpsOf({"embedDocuments"})
      inserts == SelectSeq(ops, LAMBDA o : o.op = "insertMany" /\ o.ok)
  IN /\ Cardinality(inflight) <= 1
     /\ inflight # {} => (pc = "await" /\ inflight = {idx})
     /\ \A i \in 1..Len(embeds) : embeds[i].rec = i
     /\ \A i \in 1..Len(inserts) : inserts[i].rec = i
     /\ Len(RunDocs) = Len(inserts)
     /\ \A i \in 1..Len(RunDocs) :
          /\ RunDocs[i]._id.n = i
          /\ SourceRecord(RunDocs[i]) = syntheticData[i]
     /\ pc \in {"loop", "await"} => Len(inserts) = idx - 1

\* C9 witness: the step of record 2 is pending after record 1 was written
C9_Witness ==
  /\ pc = "await" /\ inflight = {2} /\ Len(RunDocs) = 1
  /\ Len(recordsWithSummaries) = 3

\* the format of the summary, written out from left to right
RECURSIVE CommaList(_)
CommaList(items) ==
  IF Len(items) = 0 THEN ""
  ELSE IF Len(items) = 1 THEN items[1]
  ELSE CommaList(SubSeq(items, 1, Len(items) - 1)) \o ", " \o items[Len(items)]
ExpectedSummary(r) ==
  r.name \o " (" \o r.principle_id \o "): " \o r.description
    \o ". Key Concepts: " \o CommaList(r.keyConcepts)
    \o ". Design Guidelines: " \o CommaList(r.designGuidelines)
    \o ". Common Pitfalls: " \o CommaList(r.commonPitfalls)
    \o ". Best Practices: " \o CommaList(r.bestPractices)
    \o ". Technologies: " \o CommaList(r.relevantTechnologies)
    \o ". Notes: " \o r.notes
ExampleRecord ==
  [principle_id |-> "p1", name |-> "Consistency", description |-> "d1",
   keyConcepts |-> <<"A", "B">>, designGuidelines |-> <<"A">>,
   commonPitfalls |-> <<>>, bestPractices |-> <<"B", "A">>,
   relevantTechnologies |-> <<"A">>, notes |-> "n"]

\* C12 (checked under SummarySpec): for every valid record the summary is
\* exactly "<name> (<id>): <description>. Key Concepts: <items>. Design
\* Guidelines: <items>. Common Pitfalls: <items>. Best Practices: <items>.
\* Technologies: <items>. Notes: <notes>", each <items> being the list joined
\* by ", " in its order, empty for an empty list.
C12_SummaryFormat ==
  \A i \in 1..Len(recordsWithSummaries) :
    LET r == recordsWithSummaries[i]
    IN /\ r.metadata = syntheticData[i]
       /\ r.pageContent = ExpectedSummary(r.metadata)
       /\ r.metadata = ExampleRecord =>
            r.pageContent = "Consistency (p1): d1. Key Concepts: A, B. Design Guidelines: A. Common Pitfalls: . Best Practices: B, A. Technologies: A. Notes: n"

\* C12 witness: the example record has been summarized
C12_Witness ==
  /\ pc = "loop" /\ Len(recordsWithSummaries) = 1
  /\ recordsWithSummaries[1].metadata = ExampleRecord

OpRank(o) ==
  CASE o.op = "connect" -> 1
    [] o.op = "ping" -> 2
    [] o.op = "deleteMany" -> 3
    [] o.op = "llm.invoke" -> 4
    [] o.op = "parser.parse" -> 5
    [] o.op = "embedDocuments" -> 5 + 2 * o.rec
    [] o.op = "insertMany" -> 6 + 2 * o.rec
    [] o.op = "close" -> 8 + 2 * MaxBatch

\* C13: in every run the steps occur in the order connect, ping, clear,
\* generate and validate, embed and write record by record, close, and no
\* step is revisited; so when generation or validation fails, the run writes
\* no document and, the clear having run, leaves the collection empty.
C13_PipelineOrder ==
  /\ \A i \in 1..Len(ops), j \in 1..Len(ops) :
       i < j => OpRank(ops[i]) < OpRank(ops[j])
  /\ pc \in {"summarize", "loop", "await"} => OpsOf({"parser.parse"}) # <<>>
  /\ caught = "generate" =>
       /\ collection = <<>>
       /\ AttemptedRecords = {}
       /\ ops[3] = Op("deleteMany", TRUE, 0)

\* C13 witness: validation failed in the first run over one older document
C13_Witness ==
  /\ Finished /\ run = 1 /\ caught = "generate"
  /\ Len(prepopulated) = 1 /\ collection = <<>>
  /\ modelOutput.kind = "array"

\* ------------------------------------------------------------------------
\* Properties of the chat client (checked under ChatSpec)
\* ------------------------------------------------------------------------
\* C10: a send posts to /chat only while no thread id is held, and once a
\* response carrying a thread id has been processed, every send started
\* afterwards posts to /chat/{that id}.
C10_ConversationContinuity ==
  \A i \in 1..Len(sent) :
    /\ (sent[i].url = "/chat") = (sent[i].held = Null)
    /\ \A tid \in sent[i].seen : sent[i].url = "/chat/" \o tid

AgentEntries == SelectSeq(messages, LAMBDA m : m.sender = "agent")
UserEntries == SelectSeq(messages, LAMBDA m : m.sender = "user")
\* a request has settled in this step
Settles == Len(settled') = Len(settled) + 1
IsBlank(s) == \A i \in 1..Len(s) : s[i] \in Whitespace

\* C11: for every send whose request ends in a network failure or in a
\* non-2xx response, exactly one agent entry with the fallback text is
\* appended to the transcript and the earlier entries are left unchanged.
C11_FailureShowsFallback ==
  [][(Settles /\ settled'[Len(settled')].failed) =>
       messages' = Append(messages, [sender |-> "agent", text |-> Fallback])]_vars

\* C14: for every interleaving of sends and responses, the held threadId,
\* once set to a non-null value, never changes to a different value.
C14_ThreadIdStable ==
  [][threadId # Null => threadId' = threadId]_vars

\* C15: isLoading is true whenever at least one request is awaiting its
\* response, and false when no request is in flight.
C15_LoadingFlag == isLoading = (requests # {})

\* C16: the transcript is append-only; each send of a non-empty message
\* appends one user entry when it is sent and one agent entry when its
\* request settles, so the agent entries are as many as the settled requests
\* and never more than the user entries.
C16_TranscriptShape ==
  /\ [](/\ Len(UserEntries) = Len(sent)
        /\ Len(AgentEntries) = Len(settled)
        /\ Len(settled) + Cardinality(requests) = Len(sent)
        /\ Len(AgentEntries) <= Len(UserEntries))
  /\ [][/\ IsPrefix(messages, messages')
        /\ Len(messages') <= Len(messages) + 1
        /\ Len(sent') > Len(sent) =>
             (Len(messages') = Len(messages) + 1
                /\ messages'[Len(messages')].sender = "user")
        /\ Settles =>
             (Len(messages') = Len(messages) + 1
                /\ messages'[Len(messages')].sender = "agent")]_vars

\* C16 witness: two sends overlap, one of them has settled
C16_Witness ==
  /\ Len(sent) = 3 /\ Len(settled) = 1 /\ Cardinality(requests) = 2
  /\ Len(messages) = 4

\* C17: when the input is empty or holds only whitespace, sendMessage sends
\* no request and leaves the transcript, the input, threadId and isLoading
\* unchanged.
C17_BlankInputNoOp ==
  [][(IsBlank(input) /\ lastAction' = "sendMessage") =>
       UNCHANGED <<messages, input, threadId, isLoading, requests, sent>>]_vars

\* C17 witness: sendMessage has run on an input of one space, during a
\* conversation
C17_Witness ==
  /\ lastAction = "sendMessage" /\ input = <<" ">>
  /\ messages # <<>> /\ threadId # Null

====
